---- MODULE Spec2Model ----
(***************************************************************************)
(* Verification model of two client-side components of the social app:     *)
(*                                                                         *)
(*  - the starter-pack wizard reducer (State, Action, reducer), and        *)
(*  - the postgate client (getPostgateRecord, writePostgateRecord,         *)
(*    upsertPostgate and the two toggle mutations).                        *)
(*                                                                         *)
(* The two components share no state.  The wizard has two                  *)
(* specifications: SpecReducer applies the reducer to arbitrary wizard     *)
(* states, SpecProvider starts from the state the Provider builds.  The    *)
(* postgate client has two: Spec runs the toggles as interleaved           *)
(* asynchronous calls whose requests may fail, SpecSequential runs them    *)
(* one after the other with every request succeeding.                      *)
(***************************************************************************)
EXTENDS Integers, Sequences, FiniteSets, TLC

VARIABLES
    wiz,          \* the wizard State held by React.useReducer
    lastAction,   \* the Action of the most recent dispatch (history)
    store,        \* remote repositories: <<repo did, rkey>> -> payload
    gated,        \* the URI of the post the toggles act on
    calls,        \* per slot, the mutation call running or last run in it
    started,      \* number of mutation calls started so far (history)
    writes,       \* number of putRecord requests applied so far (history)
    overlapped,   \* TRUE once a call started while another was in flight
    shadow        \* post shadows of the query cache: quoting post -> embed

vars ==
    <<wiz, lastAction, store, gated, calls, started, writes, overlapped,
      shadow>>
wizVars == <<wiz, lastAction>>
pgVars == <<store, gated, calls, started, writes, overlapped, shadow>>

(***************************************************************************)
(* Bounds of the model.                                                    *)
(***************************************************************************)
MaxLen == 2       \* longest profiles / feeds list explored
MaxCalls == 2     \* mutation calls started in one behaviour

(***************************************************************************)
(*                       PART 1 - the wizard reducer                       *)
(***************************************************************************)

\* const steps = ['Details', 'Profiles', 'Feeds'] as const
steps == <<"Details", "Profiles", "Feeds">>

Step == {steps[i] : i \in 1..Len(steps)}

\* steps.indexOf(step), 1-based
indexOf(step) == CHOOSE i \in 1..Len(steps) : steps[i] = step

\* An optional string (name?: string) is <<>> when undefined and <<s>>
\* when it is the string s.
Undefined == <<>>
Some(s) == <<s>>
OptStrings == {Undefined, Some(""), Some("hi")}

\* Profiles and feeds are represented by the key the reducer looks at:
\* profile.did and feed.uri.
Dids == {"did:a", "did:b"}
FeedUris == {"feed:a", "feed:b"}

\* All sequences over S of length at most n.
SeqsUpTo(S, n) == UNION {[1..k -> S] : k \in 0..n}

\* interface State
State ==
    [canNext : BOOLEAN,
     currentStep : Step,
     name : OptStrings,
     description : OptStrings,
     profiles : SeqsUpTo(Dids, MaxLen),
     feeds : SeqsUpTo(FeedUris, MaxLen),
     processing : BOOLEAN]

\* type Action
Action ==
    [type : {"Next", "Back"}]
        \cup [type : {"SetCanNext"}, canNext : BOOLEAN]
        \cup [type : {"SetName"}, name : {"", "hi"}]
        \cup [type : {"SetDescription"}, description : {"", "hi"}]
        \cup [type : {"AddProfile"}, profile : Dids]
        \cup [type : {"RemoveProfile"}, profileDid : Dids]
        \cup [type : {"AddFeed"}, feed : FeedUris]
        \cup [type : {"RemoveFeed"}, feedUri : FeedUris]
        \cup [type : {"SetProcessing"}, processing : BOOLEAN]

\* The action recorded before any dispatch.
NoAction == [type |-> "None"]

\* Array.prototype.filter(x => x !== removed) on a list of keys.
without(seq, removed) == SelectSeq(seq, LAMBDA x : x # removed)

\* Boolean(updatedState.description): undefined and '' are falsy.
Truthy(optStr) == optStr # Undefined /\ optStr[1] # ""

\* A variant of Navigate in which Next advances only while canNext holds.
NavigateIfCanNext(state, action) ==
    LET currentIndex == indexOf(state.currentStep) IN
    IF action.type = "Next" /\ state.currentStep # "Feeds" /\ state.canNext
    THEN [state EXCEPT !.currentStep = steps[currentIndex + 1]]
    ELSE IF action.type = "Back" /\ state.currentStep # "Details"
    THEN [state EXCEPT !.currentStep = steps[currentIndex - 1]]
    ELSE state

\* reducer, navigation: the if / else if on Next and Back.
Navigate(state, action) ==
    LET currentIndex == indexOf(state.currentStep) IN
    IF action.type = "Next" /\ state.currentStep # "Feeds"
    THEN [state EXCEPT !.currentStep = steps[currentIndex + 1]]
    ELSE IF action.type = "Back" /\ state.currentStep # "Details"
    THEN [state EXCEPT !.currentStep = steps[currentIndex - 1]]
    ELSE state

\* A variant of Mutate whose AddProfile and AddFeed skip an entry that is
\* already in the list.
MutateDedup(state, updatedState, action) ==
    CASE action.type = "SetName" ->
            [state EXCEPT !.name = Some(action.name)]
      [] action.type = "SetDescription" ->
            [state EXCEPT !.description = Some(action.description)]
      [] action.type = "AddProfile" ->
            [state EXCEPT !.profiles =
                Append(without(state.profiles, action.profile),
                       action.profile)]
      [] action.type = "RemoveProfile" ->
            [state EXCEPT !.profiles =
                without(state.profiles, action.profileDid)]
      [] action.type = "AddFeed" ->
            [state EXCEPT !.feeds =
                Append(without(state.feeds, action.feed), action.feed)]
      [] action.type = "RemoveFeed" ->
            [state EXCEPT !.feeds =
                without(state.feeds, action.feedUri)]
      [] action.type = "SetProcessing" ->
            [state EXCEPT !.processing = action.processing]
      [] OTHER -> updatedState

\* A variant of Mutate whose SetDescription case writes the name too.
MutateSetsBoth(state, updatedState, action) ==
    CASE action.type = "SetName" ->
            [state EXCEPT !.name = Some(action.name)]
      [] action.type = "SetDescription" ->
            [state EXCEPT !.description = Some(action.description),
                          !.name = Some(action.description)]
      [] action.type = "AddProfile" ->
            [state EXCEPT !.profiles = Append(state.profiles, action.profile)]
      [] action.type = "RemoveProfile" ->
            [state EXCEPT !.profiles =
                without(state.profiles, action.profileDid)]
      [] action.type = "AddFeed" ->
            [state EXCEPT !.feeds = Append(state.feeds, action.feed)]
      [] action.type = "RemoveFeed" ->
            [state EXCEPT !.feeds =
                without(state.feeds, action.feedUri)]
      [] action.type = "SetProcessing" ->
            [state EXCEPT !.processing = action.processing]
      [] OTHER -> updatedState

\* reducer, the switch on action.type.  Every case spreads `state`, the
\* reducer's argument, not the navigated updatedState; a type without a case
\* keeps updatedState.
Mutate(state, updatedState, action) ==
    CASE action.type = "SetName" ->
            [state EXCEPT !.name = Some(action.name)]
      [] action.type = "SetDescription" ->
            [state EXCEPT !.description = Some(action.description)]
      [] action.type = "AddProfile" ->
            [state EXCEPT !.profiles = Append(state.profiles, action.profile)]
      [] action.type = "RemoveProfile" ->
            [state EXCEPT !.profiles =
                without(state.profiles, action.profileDid)]
      [] action.type = "AddFeed" ->
            [state EXCEPT !.feeds = Append(state.feeds, action.feed)]
      [] action.type = "RemoveFeed" ->
            [state EXCEPT !.feeds =
                without(state.feeds, action.feedUri)]
      [] action.type = "SetProcessing" ->
            [state EXCEPT !.processing = action.processing]
      [] OTHER -> updatedState

\* reducer, the switch on updatedState.currentStep.
Revalidate(updatedState) ==
    CASE updatedState.currentStep = "Details" ->
            [updatedState EXCEPT !.canNext = Truthy(updatedState.description)]
      [] OTHER ->
            [updatedState EXCEPT !.canNext = TRUE]

\* A variant of reducer that validates the step and description it was
\* given instead of the ones it produced.
reducerStale(state, action) ==
    [Mutate(state, Navigate(state, action), action)
        EXCEPT !.canNext = Revalidate(state).canNext]

\* A variant of reducer that honours SetCanNext: the flag of the action
\* becomes canNext.
reducerSetsCanNext(state, action) ==
    IF action.type = "SetCanNext"
    THEN [state EXCEPT !.canNext = action.canNext]
    ELSE Revalidate(Mutate(state, Navigate(state, action), action))

\* function reducer(state: State, action: Action): State
reducer(state, action) ==
    Revalidate(Mutate(state, Navigate(state, action), action))

\* The lists stay within the explored length.
Fits(action) ==
    /\ action.type = "AddProfile" => Len(wiz.profiles) < MaxLen
    /\ action.type = "AddFeed" => Len(wiz.feeds) < MaxLen

\* dispatch(action): React.useReducer replaces the state by
\* reducer(state, action).
Dispatch ==
    \E action \in Action :
        /\ Fits(action)
        /\ wiz' = reducer(wiz, action)
        /\ lastAction' = action
        /\ UNCHANGED pgVars

\* A list without two equal entries.
NoDup(seq) == \A i, j \in DOMAIN seq : seq[i] = seq[j] => i = j

\* An optional list (listItemsSample?, feeds?): <<>> when undefined,
\* <<list>> when it is the list.
OptLists(S) ==
    {Undefined} \cup {Some(l) : l \in {q \in SeqsUpTo(S, MaxLen) : NoDup(q)}}

\* list || []
OrNone(optList) == IF optList = Undefined THEN <<>> ELSE optList[1]

\* The starterPack prop of the Provider: not given, or a StarterPackView
\* whose record is or is not a starter-pack record (valid).  The lists of a
\* view hold every profile and feed once.
NoStarterPack == [given |-> FALSE]
StarterPacks ==
    {NoStarterPack}
        \cup [given : {TRUE}, valid : BOOLEAN, name : {"hi"},
              description : OptStrings,
              listItemsSample : OptLists(Dids),
              feeds : OptLists(FeedUris)]

\* A variant of createInitialState that validates the seeded description.
createInitialStateValidated(starterPack) ==
    IF starterPack.given /\ starterPack.valid
    THEN [canNext |-> Truthy(starterPack.description),
          currentStep |-> "Details",
          name |-> Some(starterPack.name),
          description |-> starterPack.description,
          profiles |-> OrNone(starterPack.listItemsSample),
          feeds |-> OrNone(starterPack.feeds),
          processing |-> FALSE]
    ELSE [canNext |-> FALSE, currentStep |-> "Details", name |-> Undefined,
          description |-> Undefined, profiles |-> <<>>, feeds |-> <<>>,
          processing |-> FALSE]

\* Provider, createInitialState(): seeded from the starter pack's record
\* when there is one, else empty.
createInitialState(starterPack) ==
    IF starterPack.given /\ starterPack.valid
    THEN [canNext |-> FALSE,
          currentStep |-> "Details",
          name |-> Some(starterPack.name),
          description |-> starterPack.description,
          profiles |-> OrNone(starterPack.listItemsSample),
          feeds |-> OrNone(starterPack.feeds),
          processing |-> FALSE]
    ELSE [canNext |-> FALSE, currentStep |-> "Details", name |-> Undefined,
          description |-> Undefined, profiles |-> <<>>, feeds |-> <<>>,
          processing |-> FALSE]

(***************************************************************************)
(*                       PART 2 - the postgate client                      *)
(***************************************************************************)

\* The mutation calls that may be in flight together: a call runs in a
\* slot, and a slot takes a new call once the one before is done.
CallIds == {1, 2}

\* agent.session!.did, the did of the signed-in account.
SessionDid == "did:me"

\* The repositories of the network.
Repos == {"did:me", "did:other"}

\* new AtUri(postUri): the authority (host) and the record key (rkey) of a
\* post URI.  "me.test" is a handle; the other hosts are dids.
AtUri(host, rkey) == [host |-> host, rkey |-> rkey]

\* The URIs the toggles of a behaviour may act on: a post of the session
\* account, written with the did or with the handle, or a post of another
\* account.
PostUris ==
    {AtUri("did:me", "p1"), AtUri("me.test", "p1"), AtUri("did:other", "p2")}

Rkeys == {u.rkey : u \in PostUris}

\* The URIs of the quoting posts (post.uri of the detachment mutation).
QuotingUris == {"q1", "q2"}

\* urip.host.startsWith('did:')
startsWithDid(host) == host \in Repos

\* agent.resolveHandle({handle}) when it succeeds: res.data.did
resolveHandle(handle) == CASE handle = "me.test" -> "did:me"

\* The repository of the account that wrote the post.
AuthorOf(postUri) ==
    IF startsWithDid(postUri.host) THEN postUri.host
    ELSE resolveHandle(postUri.host)

\* {$type: 'app.bsky.feed.postgate#disableRule'}
DisableRule == "app.bsky.feed.postgate#disableRule"

\* What a repository holds at a record key of the postgate collection:
\* nothing, a response without a value, a value that is no postgate
\* record, or a postgate record.  A record's optional fields
\* (detachedQuotes?, quotepostRules?) may be missing from its domain.
Absent == [tag |-> "absent"]
Empty == [tag |-> "empty"]
Malformed == [tag |-> "malformed"]

\* undefined, as the result of getPostgateRecord or of the callback.
Undef == [tag |-> "undefined"]

\* AppBskyFeedPostgate.isRecord(v)
isRecord(v) == v.tag = "record"

\* r.field || [] for an optional array field of a record.
OrEmpty(r, field) == IF field \in DOMAIN r THEN r[field] ELSE <<>>

\* Error messages of the network primitives.
NotFoundMsg == "Could not locate record: at://..."
NetworkMsg == "Network request failed"
AuthMsg == "Authentication Required"
ResolveMsg == "Unable to resolve handle"
GetFailedMsg == "Failed to get postgate record"
NoCause == "<no cause>"

\* new Error(message, {cause}); an error thrown by a primitive has no cause.
Error(message, cause) == [tag |-> "error", message |-> message, cause |-> cause]
Ok == [tag |-> "ok"]
Pending == [tag |-> "pending"]

\* e.message.includes(`Could not locate record:`)
includesNotFound(message) == message = NotFoundMsg

\* A variant of cond that lets retry try again after every error.
condAlways(message) == TRUE

\* The retry predicate handed to retry(): false stops retrying.
cond(message) == IF includesNotFound(message) THEN FALSE ELSE TRUE

\* isNetworkError(e), the predicate networkRetry retries on.
isNetworkError(message) == message = NetworkMsg

\* retry(2, ...) and networkRetry(2, ...): the number handed to them.
ReadRetries == 2
WriteRetries == 2

\* The attempts retry(n, ...) makes at most: the first one and n more.
Attempts(n) == n + 1

\* Array.from(new Set(seq)): the first occurrence of every entry, in order.
RECURSIVE Dedup(_)
Dedup(seq) ==
    IF seq = <<>> THEN <<>>
    ELSE LET front == Dedup(SubSeq(seq, 1, Len(seq) - 1))
             last == seq[Len(seq)]
         IN IF \E i \in 1..Len(front) : front[i] = last
            THEN front
            ELSE Append(front, last)

\* {...obj, [field]: value}
Spread(obj, field, value) ==
    [f \in DOMAIN obj \cup {field} |-> IF f = field THEN value ELSE obj[f]]

\* createPostgateRecord(partial): a record for partial.post, an optional
\* array that is not supplied being empty.
createPostgateRecord(partial) ==
    [tag |-> "record",
     post |-> partial.post,
     detachedQuotes |-> OrEmpty(partial, "detachedQuotes"),
     quotepostRules |-> OrEmpty(partial, "quotepostRules")]

\* mergePostgateRecords(prev, delta): detachedQuotes is the union of both
\* (a set: duplicates collapse), quotepostRules is replaced wholesale by the
\* delta's when the delta supplies it.
mergePostgateRecords(prev, delta) ==
    [tag |-> "record",
     post |-> prev.post,
     detachedQuotes |->
        Dedup(OrEmpty(prev, "detachedQuotes") \o OrEmpty(delta, "detachedQuotes")),
     quotepostRules |->
        IF "quotepostRules" \in DOMAIN delta
        THEN delta.quotepostRules
        ELSE OrEmpty(prev, "quotepostRules")]

\* A variant of DetachmentCallback that creates the record without the
\* detached quote.
DetachmentCallbackForgets(prev, postUri, quoteUri, action) ==
    IF prev # Undef
    THEN IF action = "detach"
         THEN mergePostgateRecords(prev, [detachedQuotes |-> <<postUri>>])
         ELSE IF action = "reattach"
         THEN Spread(prev, "detachedQuotes",
                     without(OrEmpty(prev, "detachedQuotes"), postUri))
         ELSE Undef
    ELSE IF action = "detach"
         THEN createPostgateRecord([post |-> quoteUri])
         ELSE Undef

\* A variant of DetachmentCallback that appends the quoting post to the
\* previous list instead of merging.
DetachmentCallbackAppends(prev, postUri, quoteUri, action) ==
    IF prev # Undef
    THEN IF action = "detach"
         THEN Spread(prev, "detachedQuotes",
                     Append(OrEmpty(prev, "detachedQuotes"), postUri))
         ELSE IF action = "reattach"
         THEN Spread(prev, "detachedQuotes",
                     without(OrEmpty(prev, "detachedQuotes"), postUri))
         ELSE Undef
    ELSE IF action = "detach"
         THEN createPostgateRecord(
                  [post |-> quoteUri, detachedQuotes |-> <<postUri>>])
         ELSE Undef

\* The callback useToggleQuoteDetachmentMutation hands to upsertPostgate.
\* postUri is post.uri, the quoting post; quoteUri is the gated post.
DetachmentCallback(prev, postUri, quoteUri, action) ==
    IF prev # Undef
    THEN IF action = "detach"
         THEN mergePostgateRecords(prev, [detachedQuotes |-> <<postUri>>])
         ELSE IF action = "reattach"
         THEN Spread(prev, "detachedQuotes",
                     without(OrEmpty(prev, "detachedQuotes"), postUri))
         ELSE Undef
    ELSE IF action = "detach"
         THEN createPostgateRecord(
                  [post |-> quoteUri, detachedQuotes |-> <<postUri>>])
         ELSE Undef

\* A variant of EnabledCallback that creates an open record when enable
\* finds none.
EnabledCallbackCreates(prev, postUri, action) ==
    IF prev # Undef
    THEN IF action = "disable"
         THEN mergePostgateRecords(prev, [quotepostRules |-> <<DisableRule>>])
         ELSE IF action = "enable"
         THEN Spread(prev, "quotepostRules", <<>>)
         ELSE Undef
    ELSE IF action = "disable"
         THEN createPostgateRecord(
                  [post |-> postUri, quotepostRules |-> <<DisableRule>>])
         ELSE createPostgateRecord([post |-> postUri])

\* A variant of EnabledCallback in which disable appends the rule to the
\* previous rules.
EnabledCallbackAppends(prev, postUri, action) ==
    IF prev # Undef
    THEN IF action = "disable"
         THEN Spread(prev, "quotepostRules",
                     Append(OrEmpty(prev, "quotepostRules"), DisableRule))
         ELSE IF action = "enable"
         THEN Spread(prev, "quotepostRules", <<>>)
         ELSE Undef
    ELSE IF action = "disable"
         THEN createPostgateRecord(
                  [post |-> postUri, quotepostRules |-> <<DisableRule>>])
         ELSE Undef

\* The callback useToggleQuotepostEnabledMutation hands to upsertPostgate.
EnabledCallback(prev, postUri, action) ==
    IF prev # Undef
    THEN IF action = "disable"
         THEN mergePostgateRecords(prev, [quotepostRules |-> <<DisableRule>>])
         ELSE IF action = "enable"
         THEN Spread(prev, "quotepostRules", <<>>)
         ELSE Undef
    ELSE IF action = "disable"
         THEN createPostgateRecord(
                  [post |-> postUri, quotepostRules |-> <<DisableRule>>])
         ELSE Undef

\* The callback of a call, by the mutation that made it.
Callback(call, prev) ==
    IF call.action \in {"detach", "reattach"}
    THEN DetachmentCallback(prev, call.quoting, call.postUri, call.action)
    ELSE EnabledCallback(prev, call.postUri, call.action)

(***************************************************************************)
(* The network primitives.  A request either fails with the message        *)
(* `fault` or, with fault = NoFault, is served from the repositories.      *)
(* getPostgateRecord tests an error only for the not-found message, so one *)
(* other message stands for the failures of a read; networkRetry tells a   *)
(* network error from any other, so a write fails with either.             *)
(***************************************************************************)
NoFault == "<no fault>"
ReadFaults == {NoFault, NetworkMsg}
WriteFaults == {NoFault, NetworkMsg, AuthMsg}

\* agent.api.com.atproto.repo.getRecord({repo, collection, rkey}): the
\* response {data: {value}}, or the error thrown.  A record that does not
\* exist is the error 'Could not locate record: ...'.
getRecord(st, repo, rkey, fault) ==
    IF fault # NoFault THEN [ok |-> FALSE, message |-> fault]
    ELSE IF st[<<repo, rkey>>] = Absent
    THEN [ok |-> FALSE, message |-> NotFoundMsg]
    ELSE [ok |-> TRUE, value |-> st[<<repo, rkey>>]]

\* A variant of putRecord that merges the detached quotes already stored
\* into the record it stores.
putRecordMerging(st, repo, rkey, record) ==
    [st EXCEPT ![<<repo, rkey>>] =
        IF isRecord(@) /\ isRecord(record)
        THEN Spread(record, "detachedQuotes",
                    Dedup(OrEmpty(@, "detachedQuotes")
                              \o OrEmpty(record, "detachedQuotes")))
        ELSE record]

\* A variant of putRecord that creates the record but does not replace a
\* stored one.
putRecordCreateOnly(st, repo, rkey, record) ==
    [st EXCEPT ![<<repo, rkey>>] = IF @ = Absent THEN record ELSE @]

\* agent.api.com.atproto.repo.putRecord({repo, collection, rkey, record}):
\* the repositories after the request is applied.
putRecord(st, repo, rkey, record) ==
    [st EXCEPT ![<<repo, rkey>>] = record]

(***************************************************************************)
(* One mutation call.  pc is where the call is suspended:                  *)
(*   idle     not started                                                  *)
(*   resolve  awaiting agent.resolveHandle                                 *)
(*   read     awaiting an attempt of getRecord inside retry                *)
(*   write    awaiting an attempt of putRecord inside networkRetry         *)
(*   done     mutationFn has returned (result Ok) or thrown (an Error)     *)
(* After mutationFn has returned, onSuccess is where the detachment        *)
(* mutation's onSuccess callback is:                                       *)
(*   none     not invoked (or the mutation has no onSuccess)               *)
(*   patched  detach: it has patched the post shadow and returned          *)
(*   refetch  reattach: awaiting getPosts                                  *)
(*   attached reattach: getPosts answered, the post shadow is patched      *)
(*   logged   reattach: getPosts failed, the error was logged              *)
(* The other fields are the call's arguments and locals, and a history of  *)
(* what it has done.                                                       *)
(***************************************************************************)
IdleCall ==
    [pc |-> "idle",
     seq |-> 0,                  \* the call is the seq-th one started
     action |-> "none",          \* detach | reattach | enable | disable
     postUri |-> AtUri("", ""),  \* the gated post: quoteUri / postUri
     quoting |-> "",             \* post.uri of a detachment call
     host |-> "",                \* urip.host
     attemptsLeft |-> 0,         \* attempts left to retry / networkRetry
     answer |-> "none",          \* what the last attempt of getRecord answered
     fetched |-> FALSE,          \* getPostgateRecord has returned
     prev |-> Undef,             \* what getPostgateRecord returned
     fetchedAt |-> -1,           \* value of writes when it returned
     cbCalls |-> 0,              \* invocations of the callback
     cbArg |-> Undef,            \* the argument of the callback
     next |-> Undef,             \* what the callback returned
     writeCalls |-> 0,           \* invocations of writePostgateRecord
     wroteAt |-> -1,             \* value of writes after its putRecord
     failedIn |-> "none",        \* the primitive whose failure ended it
     result |-> Pending,
     onSuccess |-> "none"]       \* where onSuccess is, or how it ended

\* The embeds createMaybeDetachedQuoteEmbed builds, and no shadow at all.
NoShadow == "none"
DetachedEmbed == "detached"
AttachedEmbed == "attached"

\* updatePostShadow(queryClient, uri, {embed})
updatePostShadow(sh, uri, embed) == [sh EXCEPT ![uri] = embed]

InFlight(c) ==
    calls[c].pc \notin {"idle", "done"} \/ calls[c].onSuccess = "refetch"

\* getPostgateRecord up to its first await: parse the URI and either
\* resolve the handle or start reading.
getPostgateRecordBegin(call) ==
    IF ~startsWithDid(call.postUri.host)
    THEN [call EXCEPT !.pc = "resolve", !.host = call.postUri.host]
    ELSE [call EXCEPT !.pc = "read", !.host = call.postUri.host,
                      !.attemptsLeft = Attempts(ReadRetries)]

\* mutationFn settles: the locals of getPostgateRecord and
\* writePostgateRecord are gone.
Settle(call) == [call EXCEPT !.pc = "done", !.host = "", !.attemptsLeft = 0]

\* mutationFn throws: the mutation ends with the error.
Throw(call, error) == Settle([call EXCEPT !.result = error])

\* writePostgateRecord up to its first await.
writePostgateRecordBegin(call) ==
    [call EXCEPT !.pc = "write", !.writeCalls = @ + 1,
                 !.attemptsLeft = Attempts(WriteRetries)]

\* mutationFn has resolved and useMutation invokes onSuccess, which runs to
\* its first await: a detach patches the post shadow (see OnSuccessShadow)
\* and returns, a reattach awaits getPosts.  The enabled mutation has no
\* onSuccess.
onSuccess(call) ==
    [call EXCEPT !.onSuccess =
        IF call.action = "detach" THEN "patched"
        ELSE IF call.action = "reattach" THEN "refetch"
        ELSE "none"]

\* mutationFn resolves: the mutation's data is there and onSuccess runs.
Resolve(call) == onSuccess(Settle([call EXCEPT !.result = Ok]))

\* A variant of OnSuccessShadow that patches the post shadow as soon as a
\* detach has ended, with or without an error.
OnSuccessShadowAlways(sh, call) ==
    IF call.action = "detach" /\ call.pc = "done"
    THEN updatePostShadow(sh, call.quoting, DetachedEmbed)
    ELSE sh

\* The post shadows after the step that brought the call to where it is:
\* onSuccess of a detach has marked the embed of the quoting post detached.
OnSuccessShadow(sh, call) ==
    IF call.onSuccess = "patched"
    THEN updatePostShadow(sh, call.quoting, DetachedEmbed)
    ELSE sh

\* The message of a failed getPosts.
GetPostsMsg == "useGetPosts failed"

\* A variant of getPostsContinue without the try / catch: a failed
\* getPosts ends the mutation with the error.
getPostsContinueThrows(call, ok) ==
    IF ok
    THEN [call EXCEPT !.onSuccess = "attached"]
    ELSE [call EXCEPT !.onSuccess = "none",
                      !.result = Error(GetPostsMsg, NoCause)]

\* onSuccess of a reattach after getPosts answered: patch the shadow
\* (see GetPosts), or catch the error and log it.
getPostsContinue(call, ok) ==
    IF ok
    THEN [call EXCEPT !.onSuccess = "attached"]
    ELSE [call EXCEPT !.onSuccess = "logged"]

\* A variant of upsertPostgateContinue without the early return: it writes
\* whatever the callback returned.
upsertPostgateAlwaysWrites(call) ==
    LET next == Callback(call, call.prev)
        invoked == [call EXCEPT !.cbCalls = @ + 1, !.cbArg = call.prev,
                                !.next = next]
    IN writePostgateRecordBegin(invoked)

\* upsertPostgate after getPostgateRecord returned call.prev: invoke the
\* callback with it, return if the callback returned nothing, else write
\* what it returned.
upsertPostgateContinue(call) ==
    LET next == Callback(call, call.prev)
        invoked == [call EXCEPT !.cbCalls = @ + 1, !.cbArg = call.prev,
                                !.next = next]
    IN IF next = Undef
       THEN Resolve(invoked)
       ELSE writePostgateRecordBegin(invoked)

\* getPostgateRecord returns value to upsertPostgate.
Return(call, value, now) ==
    upsertPostgateContinue(
        [call EXCEPT !.fetched = TRUE, !.prev = value, !.fetchedAt = now])

\* A variant of getPostgateRecordContinue whose catch wraps and rethrows
\* every error, the not-found one included.
getPostgateRecordRethrows(call, res, now) ==
    IF res.ok
    THEN IF res.value # Empty /\ isRecord(res.value)
         THEN Return(call, res.value, now)
         ELSE Return(call, Undef, now)
    ELSE IF cond(res.message) /\ call.attemptsLeft > 1
    THEN [call EXCEPT !.attemptsLeft = @ - 1]
    ELSE Throw(call, Error(GetFailedMsg, res.message))

\* A variant of getPostgateRecordContinue whose catch rethrows the error
\* it caught, unwrapped.
getPostgateRecordUnwrapped(call, res, now) ==
    IF res.ok
    THEN IF res.value # Empty /\ isRecord(res.value)
         THEN Return(call, res.value, now)
         ELSE Return(call, Undef, now)
    ELSE IF cond(res.message) /\ call.attemptsLeft > 1
    THEN [call EXCEPT !.attemptsLeft = @ - 1]
    ELSE IF includesNotFound(res.message)
         THEN Return(call, Undef, now)
         ELSE Throw(call, Error(res.message, NoCause))

\* getPostgateRecord after an attempt of getRecord answered with res.
getPostgateRecordContinue(call, res, now) ==
    IF res.ok
    THEN \* retry returns the response: lines 59-63
         IF res.value # Empty /\ isRecord(res.value)
         THEN Return(call, res.value, now)
         ELSE Return(call, Undef, now)
    ELSE IF cond(res.message) /\ call.attemptsLeft > 1
    THEN \* retry tries again
         [call EXCEPT !.attemptsLeft = @ - 1]
    ELSE \* retry throws the error: the catch of lines 64-75
         IF includesNotFound(res.message)
         THEN Return(call, Undef, now)
         ELSE Throw(call, Error(GetFailedMsg, res.message))

\* writePostgateRecord after an attempt of putRecord failed with message:
\* networkRetry tries again on a network error, else the error is thrown.
writePostgateRecordFailed(call, message) ==
    IF isNetworkError(message) /\ call.attemptsLeft > 1
    THEN [call EXCEPT !.attemptsLeft = @ - 1]
    ELSE Throw(call, Error(message, NoCause))

\* writePostgateRecord, upsertPostgate and mutationFn after putRecord
\* succeeded.
writePostgateRecordDone(call, now) ==
    Resolve([call EXCEPT !.wroteAt = now])

(***************************************************************************)
(* Actions.                                                                *)
(***************************************************************************)

\* A new call takes a slot with no call in flight: of two such slots the
\* one whose call is the older (the first one when neither was used).
MayStart(c) ==
    /\ started < MaxCalls
    /\ ~InFlight(c)
    /\ \A d \in CallIds \ {c} :
          InFlight(d) \/ calls[c].seq < calls[d].seq
                      \/ (calls[c].seq = calls[d].seq /\ c < d)

Begin(c, action, postUri, quoting) ==
    /\ MayStart(c)
    /\ calls' = [calls EXCEPT ![c] =
            getPostgateRecordBegin(
                [IdleCall EXCEPT !.seq = started + 1, !.action = action,
                                 !.postUri = postUri, !.quoting = quoting])]
    /\ started' = started + 1
    /\ overlapped' = (overlapped \/ \E d \in CallIds : InFlight(d))
    /\ UNCHANGED <<store, gated, writes, shadow, wizVars>>

\* useToggleQuoteDetachmentMutation().mutate({post, quoteUri, action})
ToggleQuoteDetachment(c) ==
    \E post \in QuotingUris, quoteUri \in {gated},
       action \in {"detach", "reattach"} :
        Begin(c, action, quoteUri, post)

\* useToggleQuotepostEnabledMutation().mutate({postUri, action})
ToggleQuotepostEnabled(c) ==
    \E postUri \in {gated}, action \in {"enable", "disable"} :
        Begin(c, action, postUri, "")

\* agent.resolveHandle answers: the did, or an error, which
\* getPostgateRecord does not catch.
ResolveHandle(c) ==
    /\ calls[c].pc = "resolve"
    /\ \E ok \in BOOLEAN :
        calls' = [calls EXCEPT ![c] =
                IF ok
                THEN [@ EXCEPT !.pc = "read",
                               !.host = resolveHandle(@),
                               !.attemptsLeft = Attempts(ReadRetries)]
                ELSE [Throw(@, Error(ResolveMsg, NoCause))
                         EXCEPT !.failedIn = "resolveHandle"]]
    /\ UNCHANGED <<store, gated, started, writes, overlapped, shadow, wizVars>>

\* The summary of a getRecord response, kept in the call's history: the
\* error message, or the kind of the value.
Answer(res) ==
    IF ~res.ok THEN res.message
    ELSE IF res.value = Empty THEN "empty"
    ELSE IF isRecord(res.value) THEN "record"
    ELSE "invalid"

\* One attempt of getRecord answers, and the call runs to its next await.
GetRecord(c) ==
    /\ calls[c].pc = "read"
    /\ \E fault \in ReadFaults :
        LET res == getRecord(store, calls[c].host, calls[c].postUri.rkey, fault)
            after == getPostgateRecordContinue(calls[c], res, writes)
        IN calls' = [calls EXCEPT ![c] =
                [after EXCEPT !.answer = Answer(res),
                              !.failedIn = IF after.result.tag = "error"
                                           THEN "getRecord" ELSE @]]
    /\ shadow' = OnSuccessShadow(shadow, calls'[c])
    /\ UNCHANGED <<store, gated, started, writes, overlapped, wizVars>>

\* One attempt of putRecord answers.
PutRecord(c) ==
    /\ calls[c].pc = "write"
    /\ \E fault \in WriteFaults :
        IF fault = NoFault
        THEN /\ store' = putRecord(store, SessionDid, calls[c].postUri.rkey,
                                   calls[c].next)
             /\ writes' = writes + 1
             /\ calls' = [calls EXCEPT ![c] =
                            writePostgateRecordDone(@, writes + 1)]
        ELSE /\ calls' = [calls EXCEPT ![c] =
                    LET after == writePostgateRecordFailed(@, fault)
                    IN [after EXCEPT !.failedIn =
                            IF after.pc = "done" THEN "putRecord" ELSE @]]
             /\ UNCHANGED <<store, writes>>
    /\ shadow' = OnSuccessShadow(shadow, calls'[c])
    /\ UNCHANGED <<gated, started, overlapped, wizVars>>

\* getPosts({uris: [quoteUri]}) answers the onSuccess of a reattach: the
\* quoted post, with which the embed of the quoting post is rebuilt, or an
\* error.
GetPosts(c) ==
    /\ calls[c].onSuccess = "refetch"
    /\ \E ok \in BOOLEAN :
        /\ calls' = [calls EXCEPT ![c] = getPostsContinue(@, ok)]
        /\ shadow' = IF ok
                     THEN updatePostShadow(shadow, calls[c].quoting,
                                           AttachedEmbed)
                     ELSE shadow
    /\ UNCHANGED <<store, gated, started, writes, overlapped, wizVars>>

(***************************************************************************)
(* Initial states.                                                         *)
(***************************************************************************)

\* Records a repository may hold for the gated post before the first call:
\* one without the optional fields, one with both of them filled.
InitRecords(post) ==
    {[tag |-> "record", post |-> post],
     [tag |-> "record", post |-> post, detachedQuotes |-> <<"q1">>,
      quotepostRules |-> <<DisableRule>>]}

\* The repositories before the first call: the author's repository holds
\* what was stored for the post, every other location holds nothing.
StoreWith(loc, payload) ==
    [l \in Repos \X Rkeys |-> IF l = loc THEN payload ELSE Absent]

InitStore(post) ==
    {StoreWith(<<AuthorOf(post), post.rkey>>, payload) :
        payload \in {Absent, Empty, Malformed} \cup InitRecords(post)}

\* A wizard state before the Provider is mounted (the wizard takes no step
\* in the postgate specification).
WizardIdle ==
    [canNext |-> FALSE, currentStep |-> "Details", name |-> Undefined,
     description |-> Undefined, profiles |-> <<>>, feeds |-> <<>>,
     processing |-> FALSE]

PostgateIdle ==
    /\ calls = [c \in CallIds |-> IdleCall]
    /\ started = 0
    /\ writes = 0
    /\ overlapped = FALSE
    /\ shadow = [q \in QuotingUris |-> NoShadow]

Init ==
    /\ wiz = WizardIdle
    /\ lastAction = NoAction
    /\ gated \in PostUris
    /\ store \in InitStore(gated)
    /\ PostgateIdle

Next ==
    \E c \in CallIds :
        \/ ToggleQuoteDetachment(c)
        \/ ToggleQuotepostEnabled(c)
        \/ ResolveHandle(c)
        \/ GetRecord(c)
        \/ PutRecord(c)
        \/ GetPosts(c)

\* The postgate client: interleaved mutation calls.
Spec == Init /\ [][Next]_vars

\* The wizard reducer applied to every State.
InitReducer ==
    /\ wiz \in State
    /\ lastAction = NoAction
    /\ gated = AtUri("did:me", "p1")
    /\ store = StoreWith(<<"did:me", "p1">>, Absent)
    /\ PostgateIdle

NextReducer == Dispatch

SpecReducer == InitReducer /\ [][NextReducer]_vars

\* The wizard as the Provider runs it: React.useReducer(reducer,
\* createInitialState()), then dispatches.
InitProvider ==
    /\ \E starterPack \in StarterPacks : wiz = createInitialState(starterPack)
    /\ lastAction = NoAction
    /\ gated = AtUri("did:me", "p1")
    /\ store = StoreWith(<<"did:me", "p1">>, Absent)
    /\ PostgateIdle

NextProvider == Dispatch

SpecProvider == InitProvider /\ [][NextProvider]_vars

\* A step in which every network call succeeds: no call ends with an
\* error and no attempt of retry / networkRetry is used up by a failure.
\* A getRecord answering that the record does not exist is the server's
\* answer, not a failed request.
AllSucceed ==
    \A c \in CallIds :
        /\ calls'[c].result.tag # "error"
        /\ calls'[c].onSuccess # "logged"
        /\ ~(/\ calls'[c].pc = calls[c].pc
             /\ calls'[c].attemptsLeft < calls[c].attemptsLeft)

\* A sequential run: a toggle is started only after the previous one has
\* ended, and every network call succeeds.
NextSequential ==
    \E c \in CallIds :
        \/ ToggleQuoteDetachment(c) /\ ~overlapped'
        \/ ToggleQuotepostEnabled(c) /\ ~overlapped'
        \/ ResolveHandle(c) /\ AllSucceed
        \/ GetRecord(c) /\ AllSucceed
        \/ PutRecord(c) /\ AllSucceed
        \/ GetPosts(c) /\ AllSucceed

SpecSequential == Init /\ [][NextSequential]_vars

(***************************************************************************)
(*                          PART 3 - the claims                            *)
(***************************************************************************)

\* The entries of a list, and how often x occurs in it.
Elems(seq) == {seq[i] : i \in DOMAIN seq}
Count(seq, x) == Cardinality({i \in DOMAIN seq : seq[i] = x})

\* A description that is present and not the empty string.
NonEmpty(optStr) == Len(optStr) = 1 /\ optStr[1] # ""

\* C1: after any reduction, from any State and by any Action, canNext
\* equals (description is non-empty) when the resulting currentStep is
\* Details and is true when it is Profiles or Feeds: it is computed from
\* the resulting step and description, not from the ones before.
C1_CanNextRecomputed ==
    lastAction # NoAction =>
        wiz.canNext = (IF wiz.currentStep = "Details"
                       THEN NonEmpty(wiz.description)
                       ELSE TRUE)

\* A reduction that went Back to Details, where the empty description
\* makes canNext false although it was true on Profiles.
C1_Witness ==
    /\ lastAction.type = "Back"
    /\ wiz.currentStep = "Details"
    /\ wiz.description = Some("")
    /\ ~wiz.canNext

\* C2: currentStep moves along steps by at most one position per action:
\* Next advances one position unless the step is Feeds, whatever canNext
\* and processing are; Back retreats one position unless the step is
\* Details; Next from Feeds, Back from Details and every other action leave
\* currentStep unchanged.
C2_StepByOne ==
    [][LET before == indexOf(wiz.currentStep)
           after == indexOf(wiz'.currentStep)
           type == lastAction'.type
       IN /\ wiz'.currentStep \in Step
          /\ type = "Next" /\ wiz.currentStep # "Feeds" => after = before + 1
          /\ type = "Back" /\ wiz.currentStep # "Details" => after = before - 1
          /\ type = "Next" /\ wiz.currentStep = "Feeds" => after = before
          /\ type = "Back" /\ wiz.currentStep = "Details" => after = before
          /\ type \notin {"Next", "Back"} => after = before]_wizVars

\* Next has advanced to Feeds while processing was set.
C2_Witness ==
    /\ lastAction.type = "Next"
    /\ wiz.currentStep = "Feeds"
    /\ wiz.processing

\* The location writePostgateRecord writes for a call.
WriteLoc(call) == <<SessionDid, call.postUri.rkey>>

\* The call has ended successfully after its putRecord was applied.
Wrote(call) == call.pc = "done" /\ call.result = Ok /\ call.wroteAt >= 1

\* d is the call started right after c ended, in a run whose calls never
\* overlapped.
Follows(c, d) ==
    /\ ~overlapped
    /\ calls[c].seq >= 1
    /\ calls[d].seq = calls[c].seq + 1

\* C3: within one upsertPostgate call the fetch strictly precedes the
\* write: writePostgateRecord is invoked at most once, only after
\* getPostgateRecord has returned and the callback, invoked once with what
\* it returned, has returned a record; when the fetch fails the callback is
\* not invoked, nothing is written and the call ends with the error; when
\* the callback returns nothing, nothing is written and the call succeeds.
C3_FetchPrecedesWrite ==
    \A c \in CallIds :
        LET call == calls[c] IN
        /\ call.writeCalls \in {0, 1}
        /\ call.cbCalls \in {0, 1}
        /\ call.cbCalls = 1 => call.fetched /\ call.cbArg = call.prev
        /\ call.writeCalls = 1 =>
              call.fetched /\ call.cbCalls = 1 /\ isRecord(call.next)
        /\ call.pc = "write" => call.writeCalls = 1
        /\ call.wroteAt # -1 =>
              /\ call.writeCalls = 1
              /\ call.fetchedAt >= 0
              /\ call.fetchedAt < call.wroteAt
        /\ call.pc = "done" /\ ~call.fetched =>
              /\ call.result.tag = "error"
              /\ call.cbCalls = 0
              /\ call.writeCalls = 0
              /\ call.wroteAt = -1
        /\ call.pc = "done" /\ call.fetched /\ call.next = Undef =>
              /\ call.result = Ok
              /\ call.writeCalls = 0
              /\ call.wroteAt = -1

\* One call has written after its fetch, another ended on a failed fetch,
\* with no callback and no write.
C3_Witness ==
    \E c, d \in CallIds :
        /\ Wrote(calls[c])
        /\ calls[c].fetchedAt < calls[c].wroteAt
        /\ calls[d].pc = "done"
        /\ ~calls[d].fetched
        /\ calls[d].result.tag = "error"

\* Calls c and d raced on one post: both fetched before either wrote, both
\* ended successfully, c wrote first and d wrote last.
Raced(c, d) ==
    /\ c # d
    /\ Wrote(calls[c])
    /\ Wrote(calls[d])
    /\ calls[c].postUri.rkey = calls[d].postUri.rkey
    /\ calls[c].wroteAt < calls[d].wroteAt
    /\ calls[c].fetchedAt < calls[c].wroteAt
    /\ calls[d].fetchedAt < calls[c].wroteAt
    /\ writes = calls[d].wroteAt

\* C4: upsertPostgate gives no cross-call atomicity.  When two calls on one
\* post both fetch before either writes and both succeed, the stored
\* record is exactly the record of the call that wrote last, computed from
\* what that call fetched: the update of the other call is not merged in (a
\* detached quote or a disable rule the last writer had not fetched is not
\* in the stored record).
C4_LastWriterWins ==
    \A c, d \in CallIds :
        Raced(c, d) =>
            LET stored == store[WriteLoc(calls[d])] IN
            /\ stored = calls[d].next
            /\ stored = Callback(calls[d], calls[d].prev)
            /\ (/\ calls[c].action = "detach"
                /\ calls[d].action \in {"detach", "disable"}
                /\ calls[c].quoting # calls[d].quoting
                /\ calls[c].quoting
                      \notin Elems(OrEmpty(calls[d].prev, "detachedQuotes")))
                  => calls[c].quoting \notin Elems(stored.detachedQuotes)
            /\ (/\ calls[c].action = "disable"
                /\ calls[d].action = "detach"
                /\ DisableRule
                      \notin Elems(OrEmpty(calls[d].prev, "quotepostRules")))
                  => DisableRule \notin Elems(stored.quotepostRules)

\* Two detach toggles for different quoting posts raced on a post without
\* a record: the stored record holds only the last writer's quoting post.
C4_Witness ==
    \E c, d \in CallIds :
        /\ Raced(c, d)
        /\ calls[c].action = "detach"
        /\ calls[d].action = "detach"
        /\ calls[c].quoting # calls[d].quoting
        /\ calls[c].prev = Undef
        /\ calls[d].prev = Undef
        /\ store[WriteLoc(calls[d])].detachedQuotes = <<calls[d].quoting>>

\* C5: getPostgateRecord returns undefined, and raises no error, when the
\* read fails with the not-found message and when the read succeeds with a
\* payload that is missing or is no postgate record.
C5_AbsentIsUndefined ==
    \A c \in CallIds :
        calls[c].answer \in {NotFoundMsg, "empty", "invalid"} =>
            /\ calls[c].fetched
            /\ calls[c].prev = Undef
            /\ calls[c].failedIn \notin {"resolveHandle", "getRecord"}

\* A read that failed with not-found has returned undefined to a detach,
\* which went on to its write.
C5_Witness ==
    \E c \in CallIds :
        /\ calls[c].answer = NotFoundMsg
        /\ calls[c].fetched
        /\ calls[c].prev = Undef
        /\ calls[c].action = "detach"
        /\ calls[c].pc = "write"

\* The context message a wrapped write failure would carry.
WriteFailedMsg == "Failed to write postgate record"

\* C6, as claimed: every failure other than not-found / malformed reaches
\* the caller as an error that wraps the original cause with the message
\* 'failed to get/write postgate record'.
C6_AllFailuresWrapped ==
    \A c \in CallIds :
        calls[c].result.tag = "error" =>
            /\ calls[c].result.message \in {GetFailedMsg, WriteFailedMsg}
            /\ calls[c].result.cause # NoCause

\* C6, amended: a failure of the repository read other than not-found
\* (after the retries) reaches the caller as the error 'Failed to get
\* postgate record' wrapping the original cause; a failed handle resolution
\* and every failure of the write reach the caller as the raw underlying
\* error, unwrapped.
C6_OnlyReadFailuresWrapped ==
    \A c \in CallIds :
        LET call == calls[c] IN
        call.result.tag = "error" =>
            /\ call.failedIn \in {"resolveHandle", "getRecord", "putRecord"}
            /\ call.failedIn = "getRecord" =>
                  /\ call.answer \in {NetworkMsg, AuthMsg}
                  /\ call.result = Error(GetFailedMsg, call.answer)
            /\ call.failedIn = "resolveHandle" =>
                  call.result = Error(ResolveMsg, NoCause)
            /\ call.failedIn = "putRecord" =>
                  /\ call.result.message \in {NetworkMsg, AuthMsg}
                  /\ call.result.cause = NoCause

\* One call ended with the wrapped read error, another with the raw error
\* of its write.
C6_Witness ==
    \E c, d \in CallIds :
        /\ calls[c].result = Error(GetFailedMsg, NetworkMsg)
        /\ calls[d].failedIn = "putRecord"
        /\ calls[d].result = Error(AuthMsg, NoCause)

\* C7: a detach toggle for which getPostgateRecord returned undefined
\* invokes writePostgateRecord exactly once, with a new record whose post
\* is the gated post's URI (quoteUri) and whose detachedQuotes is exactly
\* the quoting post's URI (post.uri); that record is what is stored.
C7_DetachCreatesRecord ==
    \A c \in CallIds :
        LET call == calls[c] IN
        call.action = "detach" /\ call.fetched /\ call.prev = Undef =>
            /\ call.writeCalls = 1
            /\ isRecord(call.next)
            /\ call.next.post = call.postUri
            /\ call.next.detachedQuotes = <<call.quoting>>
            /\ Wrote(call) /\ call.wroteAt = writes =>
                  store[WriteLoc(call)] = call.next

\* A detach on a post without a record has stored the new record.
C7_Witness ==
    \E c \in CallIds :
        /\ calls[c].action = "detach"
        /\ calls[c].answer = NotFoundMsg
        /\ calls[c].prev = Undef
        /\ Wrote(calls[c])
        /\ store[WriteLoc(calls[c])].post = calls[c].postUri
        /\ store[WriteLoc(calls[c])].detachedQuotes = <<calls[c].quoting>>

\* C8: a reattach or an enable for which getPostgateRecord returned
\* undefined invokes no write and ends successfully, and the step that ends
\* it leaves the repositories unchanged.
C8_RevertWithoutRecord ==
    [][\A c \in CallIds :
        LET call == calls'[c] IN
        (/\ call.action \in {"reattach", "enable"}
         /\ call.fetched
         /\ call.prev = Undef)
            => /\ call.pc = "done"
               /\ call.result = Ok
               /\ call.next = Undef
               /\ call.writeCalls = 0
               /\ call.wroteAt = -1
               /\ calls[c].pc = "read" => store' = store /\ writes' = writes]_vars

\* A reattach and an enable have both ended successfully on a post without
\* a record, and nothing was written.
C8_Witness ==
    \E c, d \in CallIds :
        /\ calls[c].action = "reattach"
        /\ calls[d].action = "enable"
        /\ \A e \in {c, d} :
              /\ calls[e].pc = "done"
              /\ calls[e].result = Ok
              /\ calls[e].answer = NotFoundMsg
              /\ calls[e].prev = Undef
        /\ writes = 0
        /\ store[WriteLoc(calls[c])] = Absent

\* C9: a disable toggle on an existing record writes a record whose
\* quotepostRules is exactly the one disable rule, whether the rules were
\* empty or already held the rule; an enable toggle on an existing record
\* writes a record whose quotepostRules is empty.  In a run without
\* overlap, disable on a record with no rules followed by enable stores the
\* disable rule and then no rule, and disable followed by disable stores
\* exactly one disable rule.
C9_DisableThenEnable ==
    /\ \A c \in CallIds :
        LET call == calls[c] IN
        call.fetched /\ call.prev # Undef =>
            /\ call.action = "disable" =>
                  call.next.quotepostRules = <<DisableRule>>
            /\ call.action = "enable" =>
                  call.next.quotepostRules = <<>>
    /\ \A c, d \in CallIds :
        (/\ Follows(c, d)
         /\ calls[c].action = "disable"
         /\ calls[c].prev # Undef
         /\ Wrote(calls[c])
         /\ calls[d].action \in {"enable", "disable"}
         /\ Wrote(calls[d]))
            => /\ calls[c].next.quotepostRules = <<DisableRule>>
               /\ calls[d].wroteAt = calls[c].wroteAt + 1
               /\ writes = calls[d].wroteAt =>
                    store[WriteLoc(calls[d])].quotepostRules =
                        IF calls[d].action = "enable"
                        THEN <<>> ELSE <<DisableRule>>

\* Disable on a record with no rules, then enable: the enable fetched the
\* disable rule and stored no rule.
C9_Witness ==
    \E c, d \in CallIds :
        /\ Follows(c, d)
        /\ calls[c].action = "disable"
        /\ calls[c].prev # Undef
        /\ OrEmpty(calls[c].prev, "quotepostRules") = <<>>
        /\ Wrote(calls[c])
        /\ calls[d].action = "enable"
        /\ calls[d].prev # Undef
        /\ OrEmpty(calls[d].prev, "quotepostRules") = <<DisableRule>>
        /\ Wrote(calls[d])
        /\ store[WriteLoc(calls[d])].quotepostRules = <<>>

\* C10: a detach on an existing record writes a record whose
\* detachedQuotes has no duplicate and holds exactly the previous entries
\* and the quoting post; detaching the same quoting post twice, one call
\* after the other, stores it exactly once.
C10_DetachIdempotent ==
    /\ \A c \in CallIds :
        LET call == calls[c] IN
        call.action = "detach" /\ call.fetched /\ call.prev # Undef =>
            /\ \A q \in Elems(call.next.detachedQuotes) :
                  Count(call.next.detachedQuotes, q) = 1
            /\ Elems(call.next.detachedQuotes) =
                  Elems(OrEmpty(call.prev, "detachedQuotes"))
                      \cup {call.quoting}
    /\ \A c, d \in CallIds :
        (/\ Follows(c, d)
         /\ calls[c].action = "detach"
         /\ calls[d].action = "detach"
         /\ calls[c].quoting = calls[d].quoting
         /\ Wrote(calls[c])
         /\ Wrote(calls[d])
         /\ writes = calls[d].wroteAt)
            => Count(store[WriteLoc(calls[d])].detachedQuotes,
                     calls[d].quoting) = 1

\* The same quoting post was detached twice in a row: the second detach
\* fetched a record that already held it, and it is stored once.
C10_Witness ==
    \E c, d \in CallIds :
        /\ Follows(c, d)
        /\ calls[c].action = "detach"
        /\ calls[d].action = "detach"
        /\ calls[c].quoting = calls[d].quoting
        /\ Wrote(calls[c])
        /\ Wrote(calls[d])
        /\ calls[d].prev # Undef
        /\ calls[d].quoting \in Elems(OrEmpty(calls[d].prev, "detachedQuotes"))
        /\ store[WriteLoc(calls[d])].detachedQuotes = <<calls[d].quoting>>

\* The location getPostgateRecord reads for a call: the repository of the
\* post URI's authority, at the post's record key.
ReadLoc(call) == <<AuthorOf(call.postUri), call.postUri.rkey>>

\* C11: in a sequential run with all network calls succeeding, the
\* getPostgateRecord of the toggle that follows a toggle which wrote a
\* record for the post returns exactly the written record: the location
\* read and the location written denote the same record.
C11_ReadsBackWritten ==
    \A c, d \in CallIds :
        (/\ Follows(c, d)
         /\ Wrote(calls[c])
         /\ calls[d].fetched)
            => /\ ReadLoc(calls[d]) = WriteLoc(calls[c])
               /\ calls[d].prev = calls[c].next

\* For a post whose authority is the session account, written with the did
\* or with the handle, the following fetch does return the written record.
C11_OwnPostReadsBack ==
    \A c, d \in CallIds :
        (/\ Follows(c, d)
         /\ Wrote(calls[c])
         /\ calls[d].fetched
         /\ AuthorOf(gated) = SessionDid)
            => /\ ReadLoc(calls[d]) = WriteLoc(calls[c])
               /\ calls[d].prev = calls[c].next

\* A toggle on the post of another account wrote into the session
\* repository, and the next toggle fetched what the author's repository
\* holds, which is not the written record.
C11_StrayWrite ==
    \E c, d \in CallIds :
        /\ Follows(c, d)
        /\ Wrote(calls[c])
        /\ calls[d].fetched
        /\ AuthorOf(gated) # SessionDid
        /\ store[WriteLoc(calls[c])] = calls[c].next
        /\ calls[d].prev # calls[c].next

\* The step is the one in which call c's putRecord succeeds.
PutSucceeds(c) == calls[c].pc = "write" /\ calls'[c].result = Ok

\* C12: the step in which a call's putRecord succeeds stores the supplied
\* record at the session repository's location for the post's record key,
\* whatever that location held, and leaves every other location of every
\* repository unchanged; no other step changes the repositories.
C12_WritesOneRecord ==
    [][/\ \A c \in CallIds :
            PutSucceeds(c) =>
                /\ store'[WriteLoc(calls[c])] = calls[c].next
                /\ \A l \in DOMAIN store \ {WriteLoc(calls[c])} :
                      store'[l] = store[l]
       /\ store' # store => \E c \in CallIds : PutSucceeds(c)]_vars

\* A call has replaced a record that differs from the one it fetched (the
\* other call stored it in between), and the record of the other account's
\* repository is as it was.
C12_Witness ==
    \E c, d \in CallIds :
        /\ Raced(c, d)
        /\ calls[c].next # calls[d].prev
        /\ isRecord(calls[d].prev)
        /\ store[WriteLoc(calls[d])] = calls[d].next
        /\ AuthorOf(gated) # SessionDid
        /\ store[ReadLoc(calls[d])] = calls[d].prev

\* C13: in every step in which an attempt of getRecord answers a call,
\* an attempt that failed with not-found is the last one of the call
\* (getPostgateRecord returns undefined at once, whatever attempts are
\* left); an attempt that failed with another error is followed by a
\* further attempt when one is left and ends the call with the error when
\* none is; a further attempt is made only after such an error.
C13_NotFoundEndsRetry ==
    [][\A c \in CallIds :
        LET before == calls[c]
            after == calls'[c]
        IN before.pc = "read" /\ after # before =>
            /\ after.answer = NotFoundMsg =>
                  /\ after.pc # "read"
                  /\ after.fetched
                  /\ after.prev = Undef
            /\ after.answer \in {NetworkMsg, AuthMsg} =>
                  IF before.attemptsLeft > 1
                  THEN /\ after.pc = "read"
                       /\ after.attemptsLeft = before.attemptsLeft - 1
                  ELSE /\ after.pc = "done"
                       /\ after.result.tag = "error"
            /\ after.pc = "read" =>
                  after.answer \in {NetworkMsg, AuthMsg}]_vars

\* One call was answered not-found and has returned undefined; another is
\* about to make its last attempt after two attempts that failed
\* otherwise.
C13_Witness ==
    \E c, d \in CallIds :
        /\ calls[c].answer = NotFoundMsg
        /\ calls[c].fetched
        /\ calls[c].prev = Undef
        /\ calls[d].pc = "read"
        /\ calls[d].attemptsLeft = 1
        /\ calls[d].answer = NetworkMsg

\* C14, as claimed: from a duplicate-free initial state and after any
\* sequence of actions, profiles holds no did twice and feeds holds no URI
\* twice.
C14_NoDuplicates == NoDup(wiz.profiles) /\ NoDup(wiz.feeds)

\* C14, amended: the reducer checks nothing when it adds.  AddProfile
\* appends the profile and AddFeed appends the feed whether or not the
\* list holds it already, so adding an entry that is present leaves it in
\* the list twice; every other action, and an add of an entry that is not
\* present, keeps a duplicate-free list duplicate-free.
C14_NoDuplicatesUnlessAddedTwice ==
    [][LET action == lastAction' IN
       /\ action.type = "AddProfile" =>
            wiz'.profiles = Append(wiz.profiles, action.profile)
       /\ action.type = "AddFeed" =>
            wiz'.feeds = Append(wiz.feeds, action.feed)
       /\ (/\ NoDup(wiz.profiles)
           /\ ~(/\ action.type = "AddProfile"
                /\ action.profile \in Elems(wiz.profiles)))
            => NoDup(wiz'.profiles)
       /\ (/\ NoDup(wiz.feeds)
           /\ ~(/\ action.type = "AddFeed"
                /\ action.feed \in Elems(wiz.feeds)))
            => NoDup(wiz'.feeds)
       /\ (action.type = "AddProfile"
              /\ action.profile \in Elems(wiz.profiles))
            => ~NoDup(wiz'.profiles)
       /\ (action.type = "AddFeed" /\ action.feed \in Elems(wiz.feeds))
            => ~NoDup(wiz'.feeds)]_wizVars

\* AddProfile was dispatched for a profile the list held: it is in the
\* list twice.
C14_Witness ==
    /\ lastAction.type = "AddProfile"
    /\ Count(wiz.profiles, lastAction.profile) = 2
    /\ NoDup(wiz.feeds)

\* What canNext is when it is computed from the rest of the state.
Valid(state) ==
    IF state.currentStep = "Details" THEN NonEmpty(state.description)
    ELSE TRUE

\* C15, as claimed: in every reachable state of the wizard, the initial
\* state built by the Provider included, canNext is true unless
\* currentStep is Details and description is empty.
C15_CanNextPure == wiz.canNext = Valid(wiz)

\* C15, amended: the state built by the Provider has canNext false on the
\* Details step whatever the seeded description is; canNext is the function
\* of currentStep and description in every state reached by at least one
\* dispatch.
C15_CanNextPureAfterDispatch ==
    IF lastAction = NoAction
    THEN wiz.canNext = FALSE /\ wiz.currentStep = "Details"
    ELSE wiz.canNext = Valid(wiz)

\* The Provider's state seeded from a starter pack with a description:
\* canNext is false although the description is not empty.
C15_Witness ==
    /\ lastAction = NoAction
    /\ wiz.currentStep = "Details"
    /\ NonEmpty(wiz.description)
    /\ ~wiz.canNext

\* The fields of State other than canNext, and the one an action type
\* designates.
DataFields ==
    {"currentStep", "name", "description", "profiles", "feeds", "processing"}

Designated(type) ==
    CASE type \in {"Next", "Back"} -> "currentStep"
      [] type = "SetName" -> "name"
      [] type = "SetDescription" -> "description"
      [] type \in {"AddProfile", "RemoveProfile"} -> "profiles"
      [] type \in {"AddFeed", "RemoveFeed"} -> "feeds"
      [] type = "SetProcessing" -> "processing"

\* C16: a reduction by Next, Back, SetName, SetDescription, AddProfile,
\* RemoveProfile, AddFeed, RemoveFeed or SetProcessing leaves every field
\* of the state other than the one the action designates, and other than
\* canNext, equal to the field of the input state; canNext is the one
\* recomputed from the result.
C16_OnlyDesignatedField ==
    [][LET type == lastAction'.type IN
       type # "SetCanNext" =>
           /\ \A f \in DataFields \ {Designated(type)} : wiz'[f] = wiz[f]
           /\ wiz'.canNext = Valid(wiz')]_wizVars

\* RemoveProfile was reduced on the Feeds step while processing: one
\* profile is left, the name, the feeds, the step and processing are kept.
C16_Witness ==
    /\ lastAction.type = "RemoveProfile"
    /\ lastAction.profileDid = "did:a"
    /\ wiz.profiles = <<"did:b">>
    /\ wiz.feeds = <<"feed:b", "feed:a">>
    /\ wiz.name = Some("hi")
    /\ wiz.currentStep = "Feeds"
    /\ wiz.processing

\* C20: SetCanNext has no effect of its own.  The reduction of a state by
\* SetCanNext(b) is that state with canNext recomputed from its step and
\* description, for either value of b.
C20_SetCanNextIgnored ==
    [][lastAction'.type = "SetCanNext" =>
           wiz' = [wiz EXCEPT !.canNext = Valid(wiz)]]_wizVars

\* SetCanNext(true) was reduced on the Details step with an empty
\* description: canNext is false.
C20_Witness ==
    /\ lastAction.type = "SetCanNext"
    /\ lastAction.canNext
    /\ wiz.currentStep = "Details"
    /\ wiz.description = Some("")
    /\ ~wiz.canNext

\* The field a toggle must not disturb: quotepostRules for detach and
\* reattach, detachedQuotes for enable and disable.  A field that is
\* missing counts as the empty list.
OtherField(action) ==
    IF action \in {"detach", "reattach"} THEN "quotepostRules"
    ELSE "detachedQuotes"

SameOtherField(action, r1, r2) ==
    /\ r1.post = r2.post
    /\ OrEmpty(r1, OtherField(action)) = OrEmpty(r2, OtherField(action))

\* C19: in a sequential run, the record a toggle writes has the post of
\* the record it fetched and, for detach and reattach, its quotepostRules,
\* for enable and disable, its detachedQuotes; and the write leaves that
\* field of the stored record as it was, so detachedQuotes changes only by
\* detach / reattach toggles and quotepostRules only by enable / disable
\* toggles.
C19_FieldsIndependent ==
    [][\A c \in CallIds :
        PutSucceeds(c) =>
            /\ calls[c].prev # Undef =>
                  SameOtherField(calls[c].action, calls[c].next, calls[c].prev)
            /\ isRecord(store[WriteLoc(calls[c])]) =>
                  SameOtherField(calls[c].action, store'[WriteLoc(calls[c])],
                                 store[WriteLoc(calls[c])])]_vars

\* The first half alone: what a toggle writes carries over the other
\* field of what it fetched.
C19_CarriesFetchedField ==
    \A c \in CallIds :
        calls[c].fetched /\ calls[c].prev # Undef /\ calls[c].next # Undef =>
            SameOtherField(calls[c].action, calls[c].next, calls[c].prev)

\* For a post of the session account the write leaves the other field of
\* the stored record as it was.
C19_OwnPostFieldsIndependent ==
    [][\A c \in CallIds :
        PutSucceeds(c) /\ AuthorOf(gated) = SessionDid =>
            /\ calls[c].prev # Undef =>
                  SameOtherField(calls[c].action, calls[c].next, calls[c].prev)
            /\ isRecord(store[WriteLoc(calls[c])]) =>
                  SameOtherField(calls[c].action, store'[WriteLoc(calls[c])],
                                 store[WriteLoc(calls[c])])]_vars

\* On the post of another account, a detach stored the quoting post and
\* the disable that followed stored a record without it.
C19_DetachLostByDisable ==
    \E c, d \in CallIds :
        /\ Follows(c, d)
        /\ AuthorOf(gated) # SessionDid
        /\ calls[c].action = "detach"
        /\ Wrote(calls[c])
        /\ calls[d].action = "disable"
        /\ Wrote(calls[d])
        /\ calls[c].quoting \in Elems(calls[c].next.detachedQuotes)
        /\ calls[c].quoting
              \notin Elems(store[WriteLoc(calls[d])].detachedQuotes)

\* C17: the shadow of a quoting post becomes the detached embed only in
\* the step in which the putRecord of a detach toggle for that quoting
\* post succeeds, after its fetch, with the record stored; onSuccess has
\* patched for a call only if the call is a detach that ended
\* successfully after its write; and the step in which the fetch or the
\* write of a detach toggle fails leaves every shadow as it was and ends
\* the call without onSuccess.
C17_PatchOnlyAfterDetach ==
    [][/\ \A q \in QuotingUris :
            shadow'[q] = DetachedEmbed /\ shadow[q] # DetachedEmbed =>
                \E c \in CallIds :
                    /\ calls[c].action = "detach"
                    /\ calls[c].quoting = q
                    /\ calls[c].fetched
                    /\ PutSucceeds(c)
                    /\ store'[WriteLoc(calls[c])] = calls[c].next
       /\ \A c \in CallIds :
            LET after == calls'[c] IN
            /\ after.onSuccess = "patched" =>
                  /\ after.action = "detach"
                  /\ after.result = Ok
                  /\ after.fetched
                  /\ after.wroteAt >= 1
            /\ (/\ after.action = "detach"
                /\ calls[c].result = Pending
                /\ after.result.tag = "error")
                  => /\ shadow' = shadow
                     /\ after.pc = "done"
                     /\ after.onSuccess = "none"]_vars

\* A detach whose write failed has left the shadow of its quoting post
\* alone, while a detach of the other quoting post has ended successfully
\* and patched.
C17_Witness ==
    \E c, d \in CallIds :
        /\ calls[c].action = "detach"
        /\ calls[c].failedIn = "putRecord"
        /\ calls[c].result.tag = "error"
        /\ calls[c].onSuccess = "none"
        /\ shadow[calls[c].quoting] = NoShadow
        /\ calls[d].action = "detach"
        /\ Wrote(calls[d])
        /\ calls[d].onSuccess = "patched"
        /\ shadow[calls[d].quoting] = DetachedEmbed

\* C18: the step in which getPosts answers the onSuccess of a reattach
\* ends the call with the mutation's success whatever the answer is; a
\* failed getPosts is logged and leaves the repositories and every shadow
\* as they were, a successful one patches the shadow of the quoting post
\* to the attached embed.  A failed handle resolution, a read that ends on
\* an error other than not-found and a write that ends without being
\* applied end the call with an error, no onSuccess and no patch.
C18_RefetchFailureSwallowed ==
    [][\A c \in CallIds :
        LET before == calls[c]
            after == calls'[c]
        IN /\ before.onSuccess = "refetch" /\ after # before =>
                /\ before.action = "reattach"
                /\ after.pc = "done"
                /\ after.result = Ok
                /\ after.onSuccess \in {"attached", "logged"}
                /\ store' = store
                /\ after.onSuccess = "logged" => shadow' = shadow
                /\ after.onSuccess = "attached" =>
                      shadow' = updatePostShadow(shadow, before.quoting,
                                                 AttachedEmbed)
           /\ (\/ before.pc = "resolve" /\ after.pc = "done"
               \/ before.pc = "read" /\ after.pc # "read"
                    /\ after.answer = NetworkMsg
               \/ before.pc = "write" /\ after.pc = "done"
                    /\ after.wroteAt = -1)
                => /\ after.result.tag = "error"
                   /\ after.pc = "done"
                   /\ after.onSuccess = "none"
                   /\ shadow' = shadow]_vars

\* A detach patched the shadow, then a reattach of the same quoting post
\* wrote its record and its getPosts failed: the reattach has ended
\* successfully, the failure is logged and the shadow is still the
\* detached embed.
C18_Witness ==
    \E c, d \in CallIds :
        /\ Follows(c, d)
        /\ calls[c].action = "detach"
        /\ calls[c].onSuccess = "patched"
        /\ calls[d].action = "reattach"
        /\ calls[d].quoting = calls[c].quoting
        /\ Wrote(calls[d])
        /\ calls[d].onSuccess = "logged"
        /\ shadow[calls[d].quoting] = DetachedEmbed

====
